---- MODULE Spec2Model ----
(***************************************************************************)
(* A model of the rum virtual machine (rum/src/rum.rs and                  *)
(* rum/src/instructs.rs): the machine state, Vm::boot, and one step of     *)
(* Vm::run per opcode.                                                     *)
(*                                                                         *)
(* A u32 is the pair <<hi, lo>> of its two 16-bit halves, because the      *)
(* integers of the model checker are narrower than 2^32.  All u32          *)
(* arithmetic below is computed on the halves and is exact modulo 2^32.    *)
(* Recursion is avoided in the arithmetic to keep evaluation shallow.      *)
(*                                                                         *)
(* The bit-field library (bitpack/src/bitpack.rs) is modelled on 64-bit    *)
(* words given bit by bit.  Spec is the virtual machine running a program  *)
(* image; SpecBits is one call of a library function on arguments drawn    *)
(* from the edges of its domain, built with or without overflow checks.    *)
(***************************************************************************)
EXTENDS Integers, Sequences, FiniteSets, TLC

\* ------------------------------------------------------------------ bounds
\* length (in words) of the exhaustively enumerated program images
ProgLen == 3
\* number of instructions one run may execute (programs may loop)
MaxSteps == 12
\* largest segment length Map Segment is asked for in the model
MaxSegLen == 2

\* ------------------------------------------------------------- u32 values
K16 == 65536

Hi(w) == w[1]
Lo(w) == w[2]

\* usize -> u32 (`x as u32`)
FromNat(n) == <<(n \div K16) % K16, n % K16>>

Zero32 == <<0, 0>>
One32 == <<0, 1>>
\* !0_u32
AllOnes32 == <<65535, 65535>>

\* a stand-in for every index of 2^31 or more: larger than any length here
HugeIndex == 2147483647

\* u32 -> usize (`x as usize`)
AsUsize(w) == IF Hi(w) < 32768 THEN Hi(w) * K16 + Lo(w) ELSE HugeIndex

\* 1 << n
Pow2(n) == 2 ^ n

\* bit i of x and bit i of y, at its place
BitAndAt(x, y, i) == ((x \div Pow2(i)) % 2) * ((y \div Pow2(i)) % 2) * Pow2(i)

\* bitwise and of two 16-bit halves
BitAnd(x, y) ==
    (BitAndAt(x, y, 0) + BitAndAt(x, y, 1)
     + BitAndAt(x, y, 2) + BitAndAt(x, y, 3))
    + ((BitAndAt(x, y, 4) + BitAndAt(x, y, 5)
        + BitAndAt(x, y, 6) + BitAndAt(x, y, 7))
       + ((BitAndAt(x, y, 8) + BitAndAt(x, y, 9)
           + BitAndAt(x, y, 10) + BitAndAt(x, y, 11))
          + (BitAndAt(x, y, 12) + BitAndAt(x, y, 13)
             + BitAndAt(x, y, 14) + BitAndAt(x, y, 15))))

\* x & y on u32
And32(x, y) == <<BitAnd(Hi(x), Hi(y)), BitAnd(Lo(x), Lo(y))>>

\* !x on u32
Not32(x) == <<65535 - Hi(x), 65535 - Lo(x)>>

\* x >> n on u32, 0 <= n < 32
Shr32(x, n) ==
    IF n >= 16 THEN <<0, Hi(x) \div Pow2(n - 16)>>
    ELSE <<Hi(x) \div Pow2(n),
           (Lo(x) \div Pow2(n)) + (Hi(x) % Pow2(n)) * Pow2(16 - n)>>

\* (x as u64 + y as u64) % (1 << 32)
Add32(x, y) ==
    LET lo == Lo(x) + Lo(y)
        hi == Hi(x) + Hi(y) + (lo \div K16)
    IN  <<hi % K16, lo % K16>>

\* the four bytes of a u32, least significant first
Bytes32(x) == <<Lo(x) % 256, Lo(x) \div 256, Hi(x) % 256, Hi(x) \div 256>>

\* (x as u64 * y as u64) % (1 << 32), by long multiplication in base 256
Mul32(x, y) ==
    LET p == Bytes32(x)
        q == Bytes32(y)
        s0 == p[1] * q[1]
        s1 == p[1] * q[2] + p[2] * q[1] + (s0 \div 256)
        s2 == p[1] * q[3] + p[2] * q[2] + p[3] * q[1] + (s1 \div 256)
        s3 == p[1] * q[4] + p[2] * q[3] + p[3] * q[2] + p[4] * q[1]
              + (s2 \div 256)
    IN  <<(s3 % 256) * 256 + (s2 % 256), (s1 % 256) * 256 + (s0 % 256)>>

\* x < y on u32
Less(x, y) == Hi(x) < Hi(y) \/ (Hi(x) = Hi(y) /\ Lo(x) < Lo(y))

\* x / y on u32, y /= 0.  A divisor of 2^31 or more goes into x at most once.
\* Otherwise x = 2 * x1 + b with x1 < 2^31: from x1 = q1 * y + r1 the
\* quotient is 2 * q1, plus 1 when 2 * r1 + b >= y.
Div32(x, y) ==
    IF Hi(y) >= 32768 THEN (IF Less(x, y) THEN Zero32 ELSE One32)
    ELSE LET yi == Hi(y) * K16 + Lo(y)
             x1 == Hi(x) * 32768 + (Lo(x) \div 2)
             b == Lo(x) % 2
             q1 == x1 \div yi
             r1 == x1 % yi
             c == IF r1 >= yi - r1 - b THEN 1 ELSE 0
         IN  <<q1 \div 32768, (q1 % 32768) * 2 + c>>

\* ------------------------------------------------------ instruction fields
RA == [width |-> 3, lsb |-> 6]
RB == [width |-> 3, lsb |-> 3]
RC == [width |-> 3, lsb |-> 0]
RL == [width |-> 3, lsb |-> 25]
VL == [width |-> 25, lsb |-> 0]

\* (1 << bits) - 1
mask(bits) == FromNat(Pow2(bits) - 1)

\* ((instruction >> field.lsb) & mask(field.width)) as usize
get(field, instruction) ==
    AsUsize(And32(Shr32(instruction, field.lsb), mask(field.width)))

\* (word >> 28) & (1 << 4) - 1
opcode(word) == AsUsize(And32(Shr32(word, 28), FromNat(Pow2(4) - 1)))

\* ------------------------------------------------------ bitpack: 64 bits
\* A u64 or an i64 is the function from bit positions to bits, bit i of weight
\* 2^i; as an i64 it is negative when bit 63 is set.
WordBits == 64
Bits == 0..(WordBits - 1)

\* a shift amount of either kind of overflow: 64 - width below zero, or a
\* shift by 64 or more.  A build with overflow checks panics on it; without
\* them the subtraction wraps modulo 2^64 and the shift uses the amount
\* modulo 64.
Overflows(shift) == shift < 0 \/ shift >= WordBits

\* word << shift on u64 and i64
shl(word, shift) ==
    LET s == shift % WordBits
    IN  [i \in Bits |-> IF i >= s THEN word[i - s] ELSE 0]

\* word >> shift on u64
shr(word, shift) ==
    LET s == shift % WordBits
    IN  [i \in Bits |-> IF i + s < WordBits THEN word[i + s] ELSE 0]

\* word >> shift on i64
sar(word, shift) ==
    LET s == shift % WordBits
    IN  [i \in Bits |-> IF i + s < WordBits THEN word[i + s]
                        ELSE word[WordBits - 1]]

and64(x, y) == [i \in Bits |-> x[i] * y[i]]
or64(x, y) == [i \in Bits |-> x[i] + y[i] - x[i] * y[i]]
not64(x) == [i \in Bits |-> 1 - x[i]]

\* 0_u64, !0_u64, (1 << k) - 1, 1 << k and -1 << k, for any k >= 0
Zero64 == [i \in Bits |-> 0]
Ones64 == [i \in Bits |-> 1]
LowOnes(k) == [i \in Bits |-> IF i < k THEN 1 ELSE 0]
OneBit(k) == [i \in Bits |-> IF i = k THEN 1 ELSE 0]
NegPow(k) == [i \in Bits |-> IF i >= k THEN 1 ELSE 0]

\* what a call comes to
Trap == [kind |-> "panic"]
None == [kind |-> "none"]
Some(word) == [kind |-> "some", value |-> word]
Bool(b) == [kind |-> "bool", value |-> b]
Word(word) == [kind |-> "word", value |-> word]

\* fitss with the sign lost: the shift back is the one of fitsu
fitss_logical(checks, n, width) ==
    LET s == WordBits - width
    IN  IF checks /\ Overflows(s) THEN Trap
        ELSE Bool(n = shr(shl(n, s), s))

\* n == ((n << (64 - width)) as i64) >> (64 - width); checks says whether the
\* build has overflow checks
fitss(checks, n, width) ==
    LET s == WordBits - width
    IN  IF checks /\ Overflows(s) THEN Trap
        ELSE Bool(n = sar(shl(n, s), s))

\* n == (n << (64 - width)) >> (64 - width)
fitsu(checks, n, width) ==
    LET s == WordBits - width
    IN  IF checks /\ Overflows(s) THEN Trap
        ELSE Bool(n = shr(shl(n, s), s))

\* ((word << (64 - width - lsb)) as i64) >> (64 - width)
gets(checks, word, width, lsb) ==
    IF checks /\ (Overflows(WordBits - width)
                  \/ Overflows(WordBits - width - lsb))
    THEN Trap
    ELSE Word(sar(shl(word, WordBits - width - lsb), WordBits - width))

\* (word << (64 - width - lsb)) >> (64 - width)
getu(checks, word, width, lsb) ==
    IF checks /\ (Overflows(WordBits - width)
                  \/ Overflows(WordBits - width - lsb))
    THEN Trap
    ELSE Word(shr(shl(word, WordBits - width - lsb), WordBits - width))

newu(checks, word, width, lsb, value) ==
    LET word_width == WordBits
    IN  IF width > word_width \/ width + lsb > word_width THEN Trap
        ELSE LET fits == fitsu(checks, value, width)
                 left == shl(shr(word, lsb + width), lsb + width)
                 right == shr(shl(word, word_width - lsb), word_width - lsb)
                 val == shl(value, lsb)
             IN  IF fits.kind = "panic" THEN Trap
                 ELSE IF fits.value
                 THEN IF checks /\ (Overflows(lsb + width)
                                    \/ Overflows(word_width - lsb)
                                    \/ Overflows(lsb))
                      THEN Trap
                      ELSE Some(or64(or64(left, right), val))
                 ELSE None

\* news without the mask on value: the sign bits of a negative value run
\* over the fields above
news_unmasked(checks, word, width, lsb, value) ==
    LET fits == fitss(checks, value, width)
        field == shl(shr(Ones64, WordBits - width), lsb)
    IN  IF fits.kind = "panic" THEN Trap
        ELSE IF fits.value
        THEN IF checks /\ Overflows(lsb) THEN Trap
             ELSE Some(or64(and64(not64(field), word), shl(value, lsb)))
        ELSE None

\* (!((!0_u64 >> (64 - width)) << lsb) & word)
\*     | (((value & (!(-1_i128 << width)) as i64) as u64) << lsb)
news(checks, word, width, lsb, value) ==
    LET fits == fitss(checks, value, width)
        field == shl(shr(Ones64, WordBits - width), lsb)
        low == and64(value, LowOnes(width))
    IN  IF fits.kind = "panic" THEN Trap
        ELSE IF fits.value
        THEN IF checks /\ Overflows(lsb) THEN Trap
             ELSE Some(or64(and64(not64(field), word), shl(low, lsb)))
        ELSE None

\* no call of bitpack, and a call that has not returned
Idle == [fn |-> "none"]
Pending == [kind |-> "pending"]

\* -------------------------------------------------------------- the state
VARIABLES
    registers,       \* Vm.registers: 0..7 -> u32
    memory,          \* Vm.memory: the segment table, slot k at index k + 1
    unmapped_segs,   \* Vm.unmapped_segs: the free-list, top of stack last
    max_mapped_seg,  \* Vm.max_mapped_seg
    prog_count,      \* Vm.prog_count
    status,          \* "new", "running", "halted" (exit 0) or "trapped" (panic)
    image,           \* the bytes of the program file
    stdin,           \* the bytes of standard input not yet read
    stdout,          \* the bytes written to standard output
    live,            \* history: identifiers mapped and not unmapped since
    minted,          \* history: largest identifier the fresh path handed out
    last,            \* history: the instruction executed by the last step
    steps,           \* history: number of instructions fetched so far
    call             \* a call of a bitpack function: its arguments and result

vars == <<registers, memory, unmapped_segs, max_mapped_seg, prog_count,
          status, image, stdin, stdout, live, minted, last, steps, call>>

\* segment k of the table
Seg(k) == memory[k + 1]

\* an index expression memory[k] panics unless k < memory.len()
HasSlot(k) == k < Len(memory)

\* the table with slot k replaced by s
SetSeg(k, s) == [memory EXCEPT ![k + 1] = s]

\* vec![0; n]
Zeroes(n) == [i \in 1..n |-> Zero32]

Front(s) == SubSeq(s, 1, Len(s) - 1)
Last(s) == s[Len(s)]

Did(name, ok, id) == [op |-> name, ok |-> ok, id |-> id]

\* ---------------------------------------------------------------- booting
\* u32::from_be_bytes on the i-th chunk of chunks_exact(4)
WordAt(buf, i) ==
    <<buf[4 * i + 1] * 256 + buf[4 * i + 2],
      buf[4 * i + 3] * 256 + buf[4 * i + 4]>>

\* buf.chunks_exact(4).map(from_be_bytes).collect()
Instructions(buf) == [i \in 1..(Len(buf) \div 4) |-> WordAt(buf, i - 1)]

\* Vm::new_vm
new_vm ==
    /\ registers = [r \in 0..7 |-> Zero32]
    /\ memory = <<>>
    /\ unmapped_segs = <<>>
    /\ max_mapped_seg = 0
    /\ prog_count = Zero32

\* Vm::boot, reading the program from the file named on the command line
boot ==
    /\ status = "new"
    /\ memory' = Append(memory, Instructions(image))
    /\ status' = "running"
    /\ live' = {0}
    /\ last' = Did("boot", TRUE, 0)
    /\ UNCHANGED <<registers, unmapped_segs, max_mapped_seg, prog_count,
                   image, call, stdin, stdout, minted, steps>>

\* ----------------------------------------------------------- the run loop
\* get_instruct can read memory[0][prog_count]
CanFetch ==
    /\ status = "running"
    /\ steps < MaxSteps
    /\ AsUsize(prog_count) < Len(Seg(0))

\* the word get_instruct returns
Instruction == Seg(0)[AsUsize(prog_count) + 1]

\* self.prog_count += 1
Advance == prog_count' = Add32(prog_count, One32) /\ steps' = steps + 1

\* get_instruct panics: prog_count is outside segment 0
get_instruct_trap ==
    /\ status = "running"
    /\ steps < MaxSteps
    /\ ~(AsUsize(prog_count) < Len(Seg(0)))
    /\ status' = "trapped"
    /\ last' = Did("get_instruct", FALSE, 0)
    /\ steps' = steps + 1
    /\ UNCHANGED <<registers, memory, unmapped_segs, max_mapped_seg,
                   prog_count, image, call, stdin, stdout, live, minted>>

\* a handler panics after the fetch: nothing but prog_count has changed
Panic(name, id) ==
    /\ Advance
    /\ status' = "trapped"
    /\ last' = Did(name, FALSE, id)
    /\ UNCHANGED <<registers, memory, unmapped_segs, max_mapped_seg,
                   image, call, stdin, stdout, live, minted>>

\* ------------------------------------------------------------ the handlers
\* Each handler is the step "get_instruct, then execute dispatches to it" for
\* a fetched word: prog_count has been incremented before the handler runs.

cond_move(word) ==
    LET a == get(RA, word)
        b == get(RB, word)
        c == get(RC, word)
    IN  /\ Advance
        /\ registers' = IF registers[c] = Zero32 THEN registers
                        ELSE [registers EXCEPT ![a] = registers[b]]
        /\ last' = Did("cond_move", TRUE, 0)
        /\ UNCHANGED <<memory, unmapped_segs, max_mapped_seg, status, image, call,
                       stdin, stdout, live, minted>>

seg_load(word) ==
    LET a == get(RA, word)
        id == AsUsize(registers[get(RB, word)])
        off == AsUsize(registers[get(RC, word)])
    IN  IF HasSlot(id) /\ off < Len(Seg(id))
        THEN /\ Advance
             /\ registers' = [registers EXCEPT ![a] = Seg(id)[off + 1]]
             /\ last' = Did("seg_load", TRUE, id)
             /\ UNCHANGED <<memory, unmapped_segs, max_mapped_seg, status,
                            image, call, stdin, stdout, live, minted>>
        ELSE Panic("seg_load", id)

seg_store(word) ==
    LET id == AsUsize(registers[get(RA, word)])
        off == AsUsize(registers[get(RB, word)])
        c == get(RC, word)
    IN  IF HasSlot(id) /\ off < Len(Seg(id))
        THEN /\ Advance
             /\ memory' = SetSeg(id, [Seg(id) EXCEPT ![off + 1] = registers[c]])
             /\ last' = Did("seg_store", TRUE, id)
             /\ UNCHANGED <<registers, unmapped_segs, max_mapped_seg, status,
                            image, call, stdin, stdout, live, minted>>
        ELSE Panic("seg_store", id)

\* registers[a] = value, the register write that ends add, mul, div and nand
SetA(name, word, value) ==
    /\ Advance
    /\ registers' = [registers EXCEPT ![get(RA, word)] = value]
    /\ last' = Did(name, TRUE, 0)
    /\ UNCHANGED <<memory, unmapped_segs, max_mapped_seg, status, image, call,
                   stdin, stdout, live, minted>>

\* add as it would be with the plain sum registers[b] + registers[c], which
\* panics on overflow in a build with overflow checks
add_checked(word) ==
    LET x == registers[get(RB, word)]
        y == registers[get(RC, word)]
    IN  IF Hi(x) + Hi(y) + ((Lo(x) + Lo(y)) \div K16) >= K16
        THEN Panic("add", 0)
        ELSE SetA("add", word, Add32(x, y))

add(word) ==
    SetA("add", word,
         Add32(registers[get(RB, word)], registers[get(RC, word)]))

mul(word) ==
    SetA("mul", word,
         Mul32(registers[get(RB, word)], registers[get(RC, word)]))

div(word) ==
    IF registers[get(RC, word)] = Zero32 THEN Panic("div", 0)
    ELSE SetA("div", word,
              Div32(registers[get(RB, word)], registers[get(RC, word)]))

nand(word) ==
    SetA("nand", word,
         Not32(And32(registers[get(RB, word)], registers[get(RC, word)])))

\* std::process::exit(0)
halt ==
    /\ Advance
    /\ status' = "halted"
    /\ last' = Did("halt", TRUE, 0)
    /\ UNCHANGED <<registers, memory, unmapped_segs, max_mapped_seg, image, call,
                   stdin, stdout, live, minted>>

\* map_seg as it would be if it reused the oldest free identifier first
map_seg_fifo(word) ==
    LET b == get(RB, word)
        n == AsUsize(registers[get(RC, word)])
    IN  /\ n <= MaxSegLen
        /\ Advance
        /\ IF Len(unmapped_segs) # 0
           THEN LET segment_number == Head(unmapped_segs)
                IN  /\ unmapped_segs' = Tail(unmapped_segs)
                    /\ memory' = SetSeg(segment_number, Zeroes(n))
                    /\ registers' =
                          [registers EXCEPT ![b] = FromNat(segment_number)]
                    /\ live' = live \cup {segment_number}
                    /\ last' = Did("map_seg", TRUE, segment_number)
                    /\ UNCHANGED <<max_mapped_seg, minted>>
           ELSE /\ max_mapped_seg' = max_mapped_seg + 1
                /\ memory' = Append(memory, Zeroes(n))
                /\ registers' =
                      [registers EXCEPT ![b] = FromNat(max_mapped_seg + 1)]
                /\ live' = live \cup {max_mapped_seg + 1}
                /\ minted' = IF max_mapped_seg + 1 > minted
                             THEN max_mapped_seg + 1 ELSE minted
                /\ last' = Did("map_seg", TRUE, max_mapped_seg + 1)
                /\ UNCHANGED unmapped_segs
        /\ UNCHANGED <<status, image, call, stdin, stdout>>

\* The popped identifier always has a slot: only unmap_seg pushes, after its
\* own index check, and the table never shrinks.
\* map_seg as it would be if it reserved the room for n words without
\* filling it: Vec::with_capacity(n)
map_seg_with_capacity(word) ==
    LET b == get(RB, word)
        n == AsUsize(registers[get(RC, word)])
    IN  /\ n <= MaxSegLen
        /\ Advance
        /\ IF Len(unmapped_segs) # 0
           THEN LET segment_number == Last(unmapped_segs)
                IN  /\ unmapped_segs' = Front(unmapped_segs)
                    /\ memory' = SetSeg(segment_number, <<>>)
                    /\ registers' =
                          [registers EXCEPT ![b] = FromNat(segment_number)]
                    /\ live' = live \cup {segment_number}
                    /\ last' = Did("map_seg", TRUE, segment_number)
                    /\ UNCHANGED <<max_mapped_seg, minted>>
           ELSE /\ max_mapped_seg' = max_mapped_seg + 1
                /\ memory' = Append(memory, <<>>)
                /\ registers' =
                      [registers EXCEPT ![b] = FromNat(max_mapped_seg + 1)]
                /\ live' = live \cup {max_mapped_seg + 1}
                /\ minted' = IF max_mapped_seg + 1 > minted
                             THEN max_mapped_seg + 1 ELSE minted
                /\ last' = Did("map_seg", TRUE, max_mapped_seg + 1)
                /\ UNCHANGED unmapped_segs
        /\ UNCHANGED <<status, image, call, stdin, stdout>>

\* map_seg as it would be without vm.max_mapped_seg += 1 on the fresh path
map_seg_no_bump(word) ==
    LET b == get(RB, word)
        n == AsUsize(registers[get(RC, word)])
    IN  /\ n <= MaxSegLen
        /\ Advance
        /\ IF Len(unmapped_segs) # 0
           THEN LET segment_number == Last(unmapped_segs)
                IN  /\ unmapped_segs' = Front(unmapped_segs)
                    /\ memory' = SetSeg(segment_number, Zeroes(n))
                    /\ registers' =
                          [registers EXCEPT ![b] = FromNat(segment_number)]
                    /\ live' = live \cup {segment_number}
                    /\ last' = Did("map_seg", TRUE, segment_number)
                    /\ UNCHANGED <<max_mapped_seg, minted>>
           ELSE /\ max_mapped_seg' = max_mapped_seg
                /\ memory' = Append(memory, Zeroes(n))
                /\ registers' =
                      [registers EXCEPT ![b] = FromNat(max_mapped_seg)]
                /\ live' = live \cup {max_mapped_seg}
                /\ minted' = IF max_mapped_seg > minted
                             THEN max_mapped_seg ELSE minted
                /\ last' = Did("map_seg", TRUE, max_mapped_seg)
                /\ UNCHANGED unmapped_segs
        /\ UNCHANGED <<status, image, call, stdin, stdout>>

map_seg(word) ==
    LET b == get(RB, word)
        n == AsUsize(registers[get(RC, word)])
    IN  /\ n <= MaxSegLen
        /\ Advance
        /\ IF Len(unmapped_segs) # 0
           THEN LET segment_number == Last(unmapped_segs)
                IN  /\ unmapped_segs' = Front(unmapped_segs)
                    /\ memory' = SetSeg(segment_number, Zeroes(n))
                    /\ registers' =
                          [registers EXCEPT ![b] = FromNat(segment_number)]
                    /\ live' = live \cup {segment_number}
                    /\ last' = Did("map_seg", TRUE, segment_number)
                    /\ UNCHANGED <<max_mapped_seg, minted>>
           ELSE /\ max_mapped_seg' = max_mapped_seg + 1
                /\ memory' = Append(memory, Zeroes(n))
                /\ registers' =
                      [registers EXCEPT ![b] = FromNat(max_mapped_seg + 1)]
                /\ live' = live \cup {max_mapped_seg + 1}
                /\ minted' = IF max_mapped_seg + 1 > minted
                             THEN max_mapped_seg + 1 ELSE minted
                /\ last' = Did("map_seg", TRUE, max_mapped_seg + 1)
                /\ UNCHANGED unmapped_segs
        /\ UNCHANGED <<status, image, call, stdin, stdout>>

unmap_seg(word) ==
    LET id == AsUsize(registers[get(RC, word)])
    IN  IF HasSlot(id)
        THEN /\ Advance
             /\ memory' = SetSeg(id, <<>>)
             /\ unmapped_segs' = Append(unmapped_segs, id)
             /\ live' = live \ {id}
             /\ last' = Did("unmap_seg", TRUE, id)
             /\ UNCHANGED <<registers, max_mapped_seg, status, image, call, stdin,
                            stdout, minted>>
        ELSE Panic("unmap_seg", id)

\* the UTF-8 encoding of the char with code point n < 256
Utf8(n) == IF n < 128 THEN <<n>> ELSE <<192 + (n \div 64), 128 + (n % 64)>>

\* print!("{}", registers[c] as u8 as char)
output(word) ==
    LET c == get(RC, word)
    IN  /\ Advance
        /\ stdout' = stdout \o Utf8(Lo(registers[c]) % 256)
        /\ last' = Did("output", TRUE, Lo(registers[c]) % 256)
        /\ UNCHANGED <<registers, memory, unmapped_segs, max_mapped_seg,
                       status, image, call, stdin, live, minted>>

\* what io::stdin().read(&mut buffer) can return for a one-byte buffer:
\* Ok(1) when a byte is there, Ok(0) at end of file, Err at any time
ReadResults == {IF stdin = <<>> THEN 0 ELSE 1, -1}

input(word) ==
    LET c == get(RC, word)
    IN  \E num \in ReadResults :
            /\ Advance
            /\ registers' = [registers EXCEPT
                   ![c] = IF num = -1 THEN AllOnes32 ELSE FromNat(num)]
            /\ stdin' = IF num = 1 THEN Tail(stdin) ELSE stdin
            /\ last' = Did("input", TRUE, num)
            /\ UNCHANGED <<memory, unmapped_segs, max_mapped_seg, status,
                           image, call, stdout, live, minted>>

\* load_prog as it would be if it moved the segment instead of cloning it
load_prog_take(word) ==
    LET id == AsUsize(registers[get(RB, word)])
        c == get(RC, word)
    IN  IF registers[get(RB, word)] # Zero32 /\ ~HasSlot(id)
        THEN Panic("load_prog", id)
        ELSE /\ memory' = IF registers[get(RB, word)] # Zero32
                          THEN [SetSeg(0, Seg(id)) EXCEPT ![id + 1] = <<>>]
                          ELSE memory
             /\ prog_count' = registers[c]
             /\ steps' = steps + 1
             /\ last' = Did("load_prog", TRUE, id)
             /\ UNCHANGED <<registers, unmapped_segs, max_mapped_seg, status,
                            image, call, stdin, stdout, live, minted>>

\* load_prog as it would be if the counter moved on after the handler, not
\* before it
load_prog_then_advance(word) ==
    LET id == AsUsize(registers[get(RB, word)])
        c == get(RC, word)
    IN  IF registers[get(RB, word)] # Zero32 /\ ~HasSlot(id)
        THEN Panic("load_prog", id)
        ELSE /\ memory' = IF registers[get(RB, word)] # Zero32
                          THEN SetSeg(0, Seg(id)) ELSE memory
             /\ prog_count' = Add32(registers[c], One32)
             /\ steps' = steps + 1
             /\ last' = Did("load_prog", TRUE, id)
             /\ UNCHANGED <<registers, unmapped_segs, max_mapped_seg, status,
                            image, call, stdin, stdout, live, minted>>

load_prog(word) ==
    LET id == AsUsize(registers[get(RB, word)])
        c == get(RC, word)
    IN  IF registers[get(RB, word)] # Zero32 /\ ~HasSlot(id)
        THEN Panic("load_prog", id)
        ELSE /\ memory' = IF registers[get(RB, word)] # Zero32
                          THEN SetSeg(0, Seg(id)) ELSE memory
             /\ prog_count' = registers[c]
             /\ steps' = steps + 1
             /\ last' = Did("load_prog", TRUE, id)
             /\ UNCHANGED <<registers, unmapped_segs, max_mapped_seg, status,
                            image, call, stdin, stdout, live, minted>>

load_val(word) ==
    LET value == get(VL, word)
        a == get(RL, word)
    IN  /\ Advance
        /\ registers' = [registers EXCEPT ![a] = FromNat(value)]
        /\ last' = Did("load_val", TRUE, 0)
        /\ UNCHANGED <<memory, unmapped_segs, max_mapped_seg, status, image, call,
                       stdin, stdout, live, minted>>

\* _ => panic!("Error")
bad_opcode == Panic("execute", 0)

\* the fetched word has opcode op
Fetched(op) == CanFetch /\ opcode(Instruction) = op

\* ------------------------------------------------------- program images
\* an instruction word with opcode op and register fields a, b, c
Ins(op, a, b, c) == <<op * 4096, a * 64 + b * 8 + c>>

\* the Load Value word: register r, 25-bit immediate v
LoadVal(r, v) == <<13 * 4096 + r * 512 + (v \div K16), v % K16>>

\* u32::to_be_bytes
BeBytes(w) == <<Hi(w) \div 256, Hi(w) % 256, Lo(w) \div 256, Lo(w) % 256>>

\* the program file holding the words of prog
RECURSIVE Image(_)
Image(prog) ==
    IF prog = <<>> THEN <<>> ELSE BeBytes(Head(prog)) \o Image(Tail(prog))

\* the words of the exhaustively enumerated programs
Alphabet ==
    { Ins(8, 0, 1, 3), Ins(8, 0, 2, 3), Ins(9, 0, 0, 1), Ins(9, 0, 0, 2),
      LoadVal(3, 1), Ins(2, 1, 0, 3), Ins(1, 4, 1, 0), Ins(12, 0, 1, 0) }

ShortPrograms == [1..ProgLen -> Alphabet]

\* unmap of segment 0
ScUnmapZero == <<Ins(9, 0, 0, 0), Ins(7, 0, 0, 0)>>

\* a double unmap, then two maps, with a store in between
ScDoubleFree ==
    <<LoadVal(3, 1), Ins(8, 0, 1, 3), Ins(9, 0, 0, 1), Ins(9, 0, 0, 1),
      Ins(8, 0, 1, 3), Ins(2, 1, 0, 3), Ins(8, 0, 2, 3), Ins(7, 0, 0, 0)>>

\* two maps, two unmaps, two maps
ScReuse ==
    <<Ins(8, 0, 1, 0), Ins(8, 0, 2, 0), Ins(9, 0, 0, 1), Ins(9, 0, 0, 2),
      Ins(8, 0, 3, 0), Ins(8, 0, 4, 0), Ins(8, 0, 5, 0), Ins(7, 0, 0, 0)>>

\* inputs, and outputs of 233, 321, 0xFFFF_FFFF and of what was read
ScInOut ==
    <<Ins(11, 0, 0, 1), Ins(10, 0, 0, 1), Ins(11, 0, 0, 2),
      LoadVal(3, 233), Ins(10, 0, 0, 3), LoadVal(4, 321), Ins(10, 0, 0, 4),
      Ins(6, 5, 0, 0), Ins(10, 0, 0, 5), Ins(7, 0, 0, 0)>>

\* builds the word 0x2000_0000 + low in r3, stores it into a fresh segment
\* and loads that segment as the program
ScLoadProg(low) ==
    <<LoadVal(3, 16777216), LoadVal(4, 32), Ins(4, 3, 3, 4), LoadVal(4, low),
      Ins(3, 3, 3, 4), LoadVal(2, 1), Ins(8, 0, 1, 2), Ins(2, 1, 0, 3),
      Ins(12, 0, 1, 0)>>

\* Load Program with R[b] = 0: the program restarts
ScRestart == <<Ins(10, 0, 0, 3), LoadVal(3, 65), Ins(12, 0, 1, 2)>>

\* use of an unmapped identifier by opcode op
ScStale(op) ==
    <<LoadVal(2, 2), Ins(8, 0, 1, 2), LoadVal(3, 1), Ins(9, 0, 0, 1),
      Ins(op, 1, 1, 3), Ins(7, 0, 0, 0)>>

\* use of a never allocated identifier by opcode op
ScNever(op) == <<LoadVal(1, 5), Ins(op, 1, 1, 0), Ins(7, 0, 0, 0)>>

\* the remaining opcodes, ending in a division by zero
ScArith ==
    <<LoadVal(1, 7), LoadVal(2, 2), Ins(5, 3, 1, 2), Ins(0, 4, 1, 2),
      Ins(0, 5, 1, 0), Ins(3, 6, 3, 4), Ins(6, 7, 6, 1), Ins(4, 7, 7, 7),
      Ins(5, 7, 7, 1), Ins(5, 3, 1, 0)>>

\* instructions that leave an edge value of the 32-bit range in register r
\* (r7 is scratch, r0 is still 0)
Build(r, kind) ==
    CASE kind = "zero" -> <<LoadVal(r, 0)>>
      [] kind = "one" -> <<LoadVal(r, 1)>>
      [] kind = "ones" -> <<Ins(6, r, 0, 0)>>
      [] kind = "top" ->
            <<LoadVal(r, 16777216), LoadVal(7, 128), Ins(4, r, r, 7)>>
      [] kind = "below_top" ->
            <<LoadVal(r, 16777216), LoadVal(7, 128), Ins(4, r, r, 7),
              Ins(6, r, r, r)>>
      [] kind = "half" -> <<LoadVal(r, 65536)>>
      [] kind = "below_half" -> <<LoadVal(r, 65535)>>
      [] kind = "max_literal" -> <<LoadVal(r, 33554431)>>

EdgeKinds ==
    { "zero", "one", "ones", "top", "below_top", "half", "below_half",
      "max_literal" }

\* r3 = r1 op r2 on two edge values
ScEdge(x, y, op) ==
    Build(1, x) \o Build(2, y) \o <<Ins(op, 3, 1, 2), Ins(7, 0, 0, 0)>>

\* a segment of 2 words is written, unmapped and its identifier mapped again
\* with 1 word
ScRemap ==
    <<LoadVal(2, 2), Ins(8, 0, 1, 2), LoadVal(3, 1), Ins(2, 1, 0, 3),
      Ins(9, 0, 0, 1), Ins(8, 0, 4, 3), Ins(7, 0, 0, 0)>>

\* with one identifier on the free-list, an unmap of identifier 5, above the
\* watermark
ScBeyond ==
    <<Ins(8, 0, 1, 0), Ins(9, 0, 0, 1), LoadVal(2, 5), Ins(9, 0, 0, 2),
      Ins(7, 0, 0, 0)>>

Scenarios ==
    { ScEdge(x, y, op) : x \in EdgeKinds, y \in EdgeKinds, op \in {3, 4, 6} }
    \cup
    { ScBeyond, ScRemap, ScUnmapZero, ScDoubleFree, ScReuse, ScInOut, ScLoadProg(66),
      ScLoadProg(2), ScRestart, ScArith, <<Ins(14, 0, 0, 0)>>,
      <<Ins(15, 0, 0, 0)>>, <<>> }
    \cup { ScStale(op) : op \in {1, 2, 12, 9} }
    \cup { ScNever(op) : op \in {1, 2, 12, 9} }

Images ==
    { Image(p) : p \in ShortPrograms \cup Scenarios }
    \cup { Image(<<Ins(7, 0, 0, 0)>>) \o <<112, 0>> }

InputStreams == { <<>>, <<65, 200>> }

\* ------------------------------------------------------ the specification
Init ==
    /\ new_vm
    /\ status = "new"
    /\ image \in Images
    /\ stdin \in InputStreams
    /\ stdout = <<>>
    /\ live = {}
    /\ minted = 0
    /\ last = Did("new_vm", TRUE, 0)
    /\ steps = 0
    /\ call = Idle

Next ==
    \/ boot
    \/ get_instruct_trap
    \/ Fetched(0) /\ cond_move(Instruction)
    \/ Fetched(1) /\ seg_load(Instruction)
    \/ Fetched(2) /\ seg_store(Instruction)
    \/ Fetched(3) /\ add(Instruction)
    \/ Fetched(4) /\ mul(Instruction)
    \/ Fetched(5) /\ div(Instruction)
    \/ Fetched(6) /\ nand(Instruction)
    \/ Fetched(7) /\ halt
    \/ Fetched(8) /\ map_seg(Instruction)
    \/ Fetched(9) /\ unmap_seg(Instruction)
    \/ Fetched(10) /\ output(Instruction)
    \/ Fetched(11) /\ input(Instruction)
    \/ Fetched(12) /\ load_prog(Instruction)
    \/ Fetched(13) /\ load_val(Instruction)
    \/ CanFetch /\ opcode(Instruction) > 13 /\ bad_opcode

Spec == Init /\ [][Next]_vars

TypeOK ==
    /\ status \in {"new", "running", "halted", "trapped"}
    /\ \A r \in 0..7 : registers[r] \in (0..65535) \X (0..65535)
    /\ max_mapped_seg \in Nat

\* ------------------------------------------------- the calls of bitpack
\* widths from 0 to one past the word, and for each the least significant
\* bits at and next to both ends of the range the field fits in
Widths == 0..(WordBits + 1)
Lsbs(width) ==
    { l \in { 0, 1, (WordBits - width) \div 2, WordBits - width - 1,
              WordBits - width, WordBits - width + 1 } : l >= 0 }

\* 0x5555_5555_5555_5555 and 0x0F0F_0F0F_0F0F_0F0F
Alternating == [i \in Bits |-> (i + 1) % 2]
Nibbles == [i \in Bits |-> (i \div 4 + 1) % 2]

Words == { Zero64, Ones64, Alternating, Nibbles }

\* 0, 1, 2^width - 1, 2^width, 2^64 - 1 and a pattern of width bits
UnsignedValues(width) ==
    { Zero64, OneBit(0), LowOnes(width), OneBit(width), Ones64,
      and64(Alternating, LowOnes(width)) }

\* 0, 1, -1, the ends of the signed range of width bits, the values next to
\* them outside the range, and a negative pattern of width bits
SignedValues(width) ==
    { Zero64, OneBit(0), Ones64, LowOnes(width - 1), NegPow(width - 1),
      OneBit(width - 1), not64(OneBit(width - 1)),
      or64(and64(Nibbles, LowOnes(width - 1)), NegPow(width - 1)) }

Call(fn, word, width, lsb, value) ==
    [fn |-> fn, word |-> word, width |-> width, lsb |-> lsb,
     value |-> value, result |-> Pending]

Calls ==
    UNION { { Call("fitss", Zero64, w, 0, v) : v \in SignedValues(w) } :
            w \in Widths }
    \cup
    UNION { { Call("fitsu", Zero64, w, 0, v) : v \in UnsignedValues(w) } :
            w \in Widths }
    \cup
    UNION { { Call(fn, word, w, l, Zero64) :
                  fn \in {"gets", "getu"}, word \in Words, l \in Lsbs(w) } :
            w \in Widths }
    \cup
    UNION { { Call("newu", word, w, l, v) :
                  word \in Words, l \in Lsbs(w), v \in UnsignedValues(w) } :
            w \in Widths }
    \cup
    UNION { { Call("news", word, w, l, v) :
                  word \in Words, l \in Lsbs(w), v \in SignedValues(w) } :
            w \in Widths }

machine ==
    <<registers, memory, unmapped_segs, max_mapped_seg, prog_count, status,
      image, stdin, stdout, live, minted, last, steps>>

\* the pending call of fn returns result
Return(fn, result) ==
    /\ call.fn = fn
    /\ call.result.kind = "pending"
    /\ call' = [call EXCEPT !.result = result]
    /\ UNCHANGED machine

\* the library is built with or without overflow checks
call_fitss ==
    \E checks \in BOOLEAN :
        Return("fitss", fitss(checks, call.value, call.width))

call_fitsu ==
    \E checks \in BOOLEAN :
        Return("fitsu", fitsu(checks, call.value, call.width))

call_gets ==
    \E checks \in BOOLEAN :
        Return("gets", gets(checks, call.word, call.width, call.lsb))

call_getu ==
    \E checks \in BOOLEAN :
        Return("getu", getu(checks, call.word, call.width, call.lsb))

call_newu ==
    \E checks \in BOOLEAN :
        Return("newu",
               newu(checks, call.word, call.width, call.lsb, call.value))

call_news ==
    \E checks \in BOOLEAN :
        Return("news",
               news(checks, call.word, call.width, call.lsb, call.value))

InitBits ==
    /\ new_vm
    /\ status = "new"
    /\ image = <<>>
    /\ stdin = <<>>
    /\ stdout = <<>>
    /\ live = {}
    /\ minted = 0
    /\ last = Did("new_vm", TRUE, 0)
    /\ steps = 0
    /\ call \in Calls

NextBits ==
    \/ call_fitss
    \/ call_fitsu
    \/ call_gets
    \/ call_getu
    \/ call_newu
    \/ call_news

SpecBits == InitBits /\ [][NextBits]_vars

\* --------------------------------------------------------------- claims
\* the identifiers on the free-list
FreeIds == { unmapped_segs[i] : i \in 1..Len(unmapped_segs) }

\* the register fields and the identifier operands of the fetched word
FieldA == get(RA, Instruction)
FieldB == get(RB, Instruction)
FieldC == get(RC, Instruction)
IdA == AsUsize(registers[FieldA])
IdB == AsUsize(registers[FieldB])
IdC == AsUsize(registers[FieldC])

\* an identifier other than 0 that is not live: unmapped or never allocated
NotLive(k) == k # 0 /\ k \notin live

\* C1: while the VM runs, segment 0 is live: it has not been released by an
\* Unmap and its identifier is not on the free-list.
C1_SegmentZeroLive ==
    status = "running" => 0 \in live /\ 0 \notin FreeIds

\* C2: the free-list never contains 0, never contains an identifier twice
\* and never contains a live identifier.
C2_FreeListWellFormed ==
    /\ 0 \notin FreeIds
    /\ Cardinality(FreeIds) = Len(unmapped_segs)
    /\ FreeIds \cap live = {}

\* C3: Unmap Segment with R[c] = 0 traps at that instruction, without
\* clearing segment 0 and without pushing 0 onto the free-list.
C3_UnmapZeroTraps ==
    [][Fetched(9) /\ IdC = 0 =>
          /\ status' = "trapped"
          /\ memory' = memory
          /\ unmapped_segs' = unmapped_segs]_vars

\* C4: Unmap Segment of an identifier that is already unmapped and has not
\* been mapped again traps and leaves the free-list unchanged.
C4_DoubleFreeTraps ==
    [][Fetched(9) /\ IdC \in FreeIds /\ IdC \notin live =>
          /\ status' = "trapped"
          /\ unmapped_segs' = unmapped_segs]_vars

\* C5: Map Segment never returns 0 nor an identifier that is live at the
\* moment of the Map; the identifier in R[b] is live afterwards and no
\* segment that was live before the Map has its contents replaced.
C5_MapReturnsFreshOrFree ==
    [][Fetched(8) =>
          LET id == AsUsize(registers'[FieldB])
          IN  /\ id # 0
              /\ id \notin live
              /\ id \in live'
              /\ \A k \in live : memory'[k + 1] = memory[k + 1]]_vars

\* C6: identifier reuse is LIFO.  Unmap pushes its identifier on top of the
\* free-list; a Map with a nonempty free-list returns the top of the list
\* and pops it, so identifiers unmapped in the order k1, ..., kn come back
\* in the order kn, ..., k1; a Map with an empty free-list returns one more
\* than the largest identifier minted so far, the first one being 1.
C6_ReuseIsLifo ==
    [][/\ Fetched(9) /\ status' = "running" =>
             unmapped_segs' = Append(unmapped_segs, IdC)
       /\ Fetched(8) /\ unmapped_segs # <<>> =>
             /\ registers'[FieldB] = FromNat(Last(unmapped_segs))
             /\ unmapped_segs' = Front(unmapped_segs)
       /\ Fetched(8) /\ unmapped_segs = <<>> =>
             /\ registers'[FieldB] = FromNat(minted + 1)
             /\ unmapped_segs' = <<>>]_vars

\* C6 witness: identifiers 1 and 2 were minted, unmapped in the order 1, 2,
\* and the next two Maps returned 2 (into r3) and then 1 (into r4).
C6_Witness ==
    /\ last = Did("map_seg", TRUE, 1)
    /\ minted = 2
    /\ unmapped_segs = <<>>
    /\ registers[3] = FromNat(2)
    /\ registers[4] = FromNat(1)
    /\ live = {0, 1, 2}

\* C7: Input sets R[c] to the next byte of the stream and consumes it, or
\* to 0xFFFF_FFFF at end of file or when the read fails.
C7_InputDeliversByte ==
    [][Fetched(11) =>
          \/ /\ stdin # <<>>
             /\ registers'[FieldC] = FromNat(Head(stdin))
             /\ stdin' = Tail(stdin)
          \/ /\ registers'[FieldC] = AllOnes32
             /\ stdin' = stdin]_vars

\* C8: Output appends exactly one byte, the low 8 bits of R[c].
C8_OutputOneByte ==
    [][Fetched(10) =>
          stdout' = Append(stdout, Lo(registers[FieldC]) % 256)]_vars

\* C9: Load Program sets pc to R[c]; with R[b] = 0 the table is unchanged;
\* with R[b] = k, k live, segment 0 becomes a copy of segment k and nothing
\* else in the table changes; registers and free-list are unchanged.  A
\* Segmented Store changes one segment only, so after the copy a store
\* into segment 0 leaves segment k alone, and the other way round.
C9_LoadProgFrame ==
    [][/\ Fetched(12) /\ (registers[FieldB] = Zero32 \/ IdB \in live) =>
             /\ status' = "running"
             /\ prog_count' = registers[FieldC]
             /\ registers' = registers
             /\ unmapped_segs' = unmapped_segs
             /\ max_mapped_seg' = max_mapped_seg
             /\ memory' = IF registers[FieldB] = Zero32 THEN memory
                          ELSE [memory EXCEPT ![1] = memory[IdB + 1]]
       /\ Fetched(2) =>
             /\ Len(memory') = Len(memory)
             /\ \A k \in 0..(Len(memory) - 1) :
                    k # IdA => memory'[k + 1] = memory[k + 1]]_vars

\* C9 witness: segment 1 was loaded as the program, the copy in segment 0
\* was then overwritten by a store, and segment 1 still holds its word.
C9_Witness ==
    /\ last = Did("seg_store", TRUE, 0)
    /\ 1 \in live
    /\ Seg(0) = <<One32>>
    /\ Seg(1) = <<Ins(2, 0, 0, 2)>>
    /\ prog_count = One32

\* C10: Segmented Load, Segmented Store and Load Program on an identifier
\* that is not live (unmapped, or never allocated) trap at that instruction
\* and change no register and no segment.
C10_StaleIdentifierTraps ==
    [][\/ Fetched(1) /\ NotLive(IdB)
       \/ Fetched(2) /\ NotLive(IdA)
       \/ Fetched(12) /\ NotLive(IdB)
       => /\ status' = "trapped"
          /\ registers' = registers
          /\ memory' = memory]_vars

\* the offsets Segmented Store and Segmented Load use in the fetched word
OffB == AsUsize(registers[FieldB])
OffC == AsUsize(registers[FieldC])

\* the fetched instruction is one the claim C11 sets aside for the word at
\* (id, off): a store to that word, an unmap of id, or, for id = 0, a Load
\* Program that replaces segment 0
Overwrites(id, off) ==
    \/ Fetched(2) /\ IdA = id /\ OffB = off
    \/ Fetched(9) /\ IdC = id
    \/ Fetched(12) /\ registers[FieldB] # Zero32 /\ id = 0

\* C11: a word stored at (id, offset) of a live segment is what a later load
\* at (id, offset) returns: a store writes the word, a load reads the word,
\* and every instruction in between, other than a store to the same place,
\* an unmap of id and (for id = 0) a Load Program with R[b] /= 0, leaves
\* the word of the live segment in place; Map Segment in particular.
C11_StoredWordPersists ==
    [][/\ Fetched(2) /\ status' = "running" =>
             memory'[IdA + 1][OffB + 1] = registers[FieldC]
       /\ Fetched(1) /\ status' = "running" =>
             registers'[FieldA] = memory[IdB + 1][OffC + 1]
       /\ \A id \in live : \A off \in 0..(Len(Seg(id)) - 1) :
             ~Overwrites(id, off) =>
                 /\ Len(memory') > id
                 /\ Len(memory'[id + 1]) > off
                 /\ memory'[id + 1][off + 1] = memory[id + 1][off + 1]]_vars

\* r = (x + y) mod 2^32: x + y = r + k * 2^32 with k in {0, 1}, stated on
\* the 16-bit halves with the carry c between them
IsSum(r, x, y) ==
    \E c \in {0, 1} : \E k \in {0, 1} :
        /\ Lo(x) + Lo(y) = Lo(r) + c * K16
        /\ Hi(x) + Hi(y) + c = Hi(r) + k * K16

\* the product of two 16-bit numbers as <<high half, low half>>
Product16(a, b) ==
    LET p == (a \div 256) * b
        q == (a % 256) * b
        low == 256 * (p % 256) + q
    IN  <<(p \div 256) + (low \div K16), low % K16>>

\* r = (x * y) mod 2^32: of the four products of halves, Hi(x) * Hi(y) is a
\* multiple of 2^32, and the two mixed ones count with their low halves
IsProduct(r, x, y) ==
    /\ Lo(r) = Product16(Lo(x), Lo(y))[2]
    /\ Hi(r) = (Product16(Lo(x), Lo(y))[1] + Product16(Hi(x), Lo(y))[2]
                + Product16(Lo(x), Hi(y))[2]) % K16

\* bit i of a 32-bit word
Bit(x, i) ==
    IF i < 16 THEN (Lo(x) \div Pow2(i)) % 2 ELSE (Hi(x) \div Pow2(i - 16)) % 2

\* r = the 32-bit complement of (x AND y), bit by bit
IsNand(r, x, y) == \A i \in 0..31 : Bit(r, i) = 1 - Bit(x, i) * Bit(y, i)

\* C12: Addition leaves (x + y) mod 2^32 in R[a], Multiplication
\* (x * y) mod 2^32 and NAND the 32-bit complement of x AND y, for the values
\* x = R[b], y = R[c] before the step, and none of the three traps.
C12_ModularArithmetic ==
    [][/\ Fetched(3) =>
             /\ status' = "running"
             /\ IsSum(registers'[FieldA], registers[FieldB], registers[FieldC])
       /\ Fetched(4) =>
             /\ status' = "running"
             /\ IsProduct(registers'[FieldA], registers[FieldB],
                          registers[FieldC])
       /\ Fetched(6) =>
             /\ status' = "running"
             /\ IsNand(registers'[FieldA], registers[FieldB],
                       registers[FieldC])]_vars

\* 0xFFFF_FFFF + 1 has wrapped to 0
C12_Witness ==
    /\ last = Did("add", TRUE, 0)
    /\ registers[1] = AllOnes32
    /\ registers[2] = One32
    /\ registers[3] = Zero32
    /\ status = "running"

\* the call of fn has returned
Done(fn) == call.fn = fn /\ call.result.kind # "pending"

\* the field of the call lies in the word: 1 <= width <= 64 and
\* lsb + width <= 64
ValidField ==
    /\ call.width \in 1..WordBits
    /\ call.lsb \in 0..(WordBits - call.width)

\* bit i lies in the field of the call
InField(i) == call.lsb <= i /\ i < call.lsb + call.width

\* x < y on u64, and on i64
ULess(x, y) ==
    \E i \in Bits : x[i] < y[i] /\ \A j \in Bits : j > i => x[j] = y[j]
SLess(x, y) ==
    IF x[WordBits - 1] # y[WordBits - 1] THEN x[WordBits - 1] = 1
    ELSE ULess(x, y)

\* 0 <= n < 2^width on u64 and -2^(width-1) <= n < 2^(width-1) on i64, for
\* 1 <= width <= 64; at width 64 the upper limit is beyond every word
InRangeU(n, width) == width = WordBits \/ ULess(n, OneBit(width))
InRangeS(n, width) ==
    /\ ~SLess(n, NegPow(width - 1))
    /\ width = WordBits \/ SLess(n, OneBit(width - 1))

\* C13: for 1 <= width <= 64, 0 <= lsb <= 64 - width (lsb = 0 and
\* lsb + width = 64 included), every word w and every v with 0 <= v < 2^width,
\* newu(w, width, lsb, v) is Some(w') with getu(w', width, lsb) = v and w' equal
\* to w outside the field; newu(w, 64, 0, v) is Some(v).
C13_UnsignedRoundTrip ==
    Done("newu") /\ ValidField /\ InRangeU(call.value, call.width) =>
        /\ call.result.kind = "some"
        /\ \A checks \in BOOLEAN :
               getu(checks, call.result.value, call.width, call.lsb)
                   = Word(call.value)
        /\ \A i \in Bits : ~InField(i) => call.result.value[i] = call.word[i]
        /\ call.width = WordBits => call.result.value = call.value

\* C14: for 1 <= width <= 64, 0 <= lsb <= 64 - width, every word w and every
\* v with -2^(width-1) <= v < 2^(width-1), news(w, width, lsb, v) is Some(w')
\* with gets(w', width, lsb) = v and w' equal to w outside the field;
\* news(w, 64, 0, v) is the two's-complement image of v.
C14_SignedRoundTrip ==
    Done("news") /\ ValidField /\ InRangeS(call.value, call.width) =>
        /\ call.result.kind = "some"
        /\ \A checks \in BOOLEAN :
               gets(checks, call.result.value, call.width, call.lsb)
                   = Word(call.value)
        /\ \A i \in Bits : ~InField(i) => call.result.value[i] = call.word[i]
        /\ call.width = WordBits => call.result.value = call.value

\* a negative value has been written into a field inside a word of zeroes
C14_Witness ==
    /\ Done("news")
    /\ call.result.kind = "some"
    /\ call.word = Zero64
    /\ call.value[WordBits - 1] = 1
    /\ call.value # Ones64
    /\ call.lsb > 0
    /\ call.lsb + call.width < WordBits

\* C15: for 1 <= width <= 64, fitss(n, width) is true iff
\* -2^(width-1) <= n < 2^(width-1) and fitsu(n, width) iff 0 <= n < 2^width
\* (always, at width 64); newu and news on a field inside the word return None,
\* and do not trap, exactly when the value is outside that range.
C15_FitsIsRange ==
    /\ Done("fitss") /\ call.width \in 1..WordBits =>
           call.result = Bool(InRangeS(call.value, call.width))
    /\ Done("fitsu") /\ call.width \in 1..WordBits =>
           call.result = Bool(InRangeU(call.value, call.width))
    /\ Done("newu") /\ ValidField =>
           (call.result.kind = "none" <=> ~InRangeU(call.value, call.width))
    /\ Done("news") /\ ValidField =>
           (call.result.kind = "none" <=> ~InRangeS(call.value, call.width))

\* news has refused 128 for a field of 8 bits
C15_Witness ==
    /\ Done("news")
    /\ call.result.kind = "none"
    /\ call.width = 8
    /\ call.lsb = 56
    /\ call.value = OneBit(7)

\* C16: every operation traps when width = 0, width > 64 or lsb + width > 64,
\* the signed ones as the unsigned ones; news with lsb + width > 64 traps as
\* newu does.
C16_InvalidFieldTraps ==
    /\ call.fn # "none"
    /\ call.result.kind # "pending"
    /\ (call.width = 0 \/ call.width > WordBits
        \/ call.lsb + call.width > WordBits)
    => call.result.kind = "panic"

\* C17: an image of 4n bytes boots into n words in segment 0, word k made of
\* bytes 4k..4k+3 with the most significant first; an image whose length is no
\* multiple of 4 is a fatal error of the loader: the VM does not start to run,
\* no instruction is executed and no trailing bytes are dropped.
C17_LoaderChecksLength ==
    [][status = "new" =>
           IF Len(image) % 4 = 0
           THEN /\ status' = "running"
                /\ Len(memory') = 1
                /\ Len(memory'[1]) = Len(image) \div 4
                /\ \A k \in 0..(Len(image) \div 4 - 1) :
                       Bytes32(memory'[1][k + 1])
                           = <<image[4 * k + 4], image[4 * k + 3],
                               image[4 * k + 2], image[4 * k + 1]>>
           ELSE status' = "trapped" /\ steps' = 0]_vars

\* the handler execute dispatches to, by opcode
Handlers ==
    <<"cond_move", "seg_load", "seg_store", "add", "mul", "div", "nand",
      "halt", "map_seg", "unmap_seg", "output", "input", "load_prog",
      "load_val">>

\* C18: a step fetches the word at memory[0][pc] and moves pc on before the
\* word is executed: the handler that runs is the one of that word's opcode;
\* after a step of an opcode other than 7 and 12 that does not trap, pc is its
\* value before the step plus 1; after opcode 12, pc is R[c] (not R[c] + 1);
\* a fetch with pc at or beyond the length of segment 0 traps.
C18_FetchThenAdvance ==
    [][/\ \A op \in 0..13 : Fetched(op) => last'.op = Handlers[op + 1]
       /\ \A op \in (0..13) \ {7, 12} :
              Fetched(op) /\ status' = "running" =>
                  IsSum(prog_count', prog_count, One32)
       /\ Fetched(12) /\ status' = "running" =>
              prog_count' = registers[FieldC]
       /\ (/\ status = "running"
           /\ steps < MaxSteps
           /\ AsUsize(prog_count) >= Len(Seg(0))) =>
              status' = "trapped" /\ last'.op = "get_instruct"]_vars

\* Load Program with R[b] = 0 and R[c] = 0, fetched at offset 2, has set pc
\* to 0
C18_Witness ==
    /\ last = Did("load_prog", TRUE, 0)
    /\ prog_count = Zero32
    /\ steps = 3
    /\ status = "running"
    /\ Len(Seg(0)) = 3

\* C19: after a Map Segment with R[c] = n the segment of the identifier left
\* in R[b] has n words, all 0, also when the identifier is reused; the Map
\* changes no other live segment, no register other than R[b], and pc is the
\* one the fetch left.
C19_MapZeroFills ==
    [][Fetched(8) =>
           LET id == AsUsize(registers'[FieldB])
               n == AsUsize(registers[FieldC])
           IN  /\ status' = "running"
               /\ Len(memory') > id
               /\ memory'[id + 1] = [i \in 1..n |-> <<0, 0>>]
               /\ \A k \in live \ {id} : memory'[k + 1] = memory[k + 1]
               /\ \A r \in (0..7) \ {FieldB} : registers'[r] = registers[r]
               /\ IsSum(prog_count', prog_count, One32)]_vars

\* identifier 1, which named a segment of 2 words with a 1 in it, names a
\* segment of one zero word after its reuse
C19_Witness ==
    /\ last = Did("map_seg", TRUE, 1)
    /\ steps = 6
    /\ registers[2] = FromNat(2)
    /\ registers[4] = One32
    /\ Seg(1) = <<Zero32>>
    /\ unmapped_segs = <<>>
    /\ minted = 1

\* once booted, the watermark is the number of slots minus one and bounds
\* every identifier of the free-list
WatermarkOK ==
    status # "new" =>
        /\ max_mapped_seg = Len(memory) - 1
        /\ \A id \in FreeIds : id <= max_mapped_seg

\* C20: in the booted VM max_mapped_seg is the number of slots of the segment
\* table minus one and never decreases, and every identifier on the free-list
\* is at most max_mapped_seg; the identifier the fresh path of Map writes to
\* R[b] is the index of the slot just appended, a popped identifier indexes an
\* existing slot, and an Unmap of an identifier above max_mapped_seg traps and
\* leaves the free-list as it was.
C20_WatermarkConsistent ==
    [][/\ WatermarkOK'
       /\ max_mapped_seg' >= max_mapped_seg
       /\ Fetched(8) /\ unmapped_segs = <<>> =>
              /\ Len(memory') = Len(memory) + 1
              /\ AsUsize(registers'[FieldB]) = Len(memory') - 1
       /\ Fetched(8) /\ unmapped_segs # <<>> =>
              /\ Len(memory') = Len(memory)
              /\ AsUsize(registers'[FieldB]) < Len(memory)
       /\ Fetched(9) /\ IdC > max_mapped_seg =>
              /\ status' = "trapped"
              /\ unmapped_segs' = unmapped_segs]_vars

\* with identifier 1 on the free-list, the Unmap of identifier 5 has trapped
C20_Witness ==
    /\ last = Did("unmap_seg", FALSE, 5)
    /\ status = "trapped"
    /\ unmapped_segs = <<1>>
    /\ max_mapped_seg = 1
    /\ Len(memory) = 2

====
